---------------------------- MODULE Spec2Model ----------------------------
(***************************************************************************)
(* Model of ResumeBackend/app.py: the Flask handler parse_document, run by *)
(* a threaded server, together with the upload directory its requests      *)
(* share.                                                                  *)
(*                                                                         *)
(* A Python str is a sequence of one-character TLA+ strings (a message of  *)
(* the program is a sequence of longer pieces), so that lower(),           *)
(* endswith(), os.path.join() and the splitting of a path at "/" are       *)
(* computed, not assumed.  A Python value that may be None is a pair       *)
(* <<tag, payload>>.                                                       *)
(***************************************************************************)
EXTENDS Naturals, Sequences, FiniteSets

\* Number of requests the server handles; they may overlap in any way.
NumRequests == 2

Requests == 1..NumRequests

-----------------------------------------------------------------------------
(* Python values *)

PyNone == <<"None", <<>>>>
PyStr(s) == <<"str", s>>

\* bool(v) for v a str or None: None and "" are falsy.
Truthy(v) == v[1] = "str" /\ v[2] # <<>>

UpperLetters == <<"A","B","C","D","E","F","G","H","I","J","K","L","M",
                  "N","O","P","Q","R","S","T","U","V","W","X","Y","Z">>
LowerLetters == <<"a","b","c","d","e","f","g","h","i","j","k","l","m",
                  "n","o","p","q","r","s","t","u","v","w","x","y","z">>

LowerChar(c) ==
    IF \E i \in DOMAIN UpperLetters : UpperLetters[i] = c
    THEN LowerLetters[CHOOSE i \in DOMAIN UpperLetters : UpperLetters[i] = c]
    ELSE c

\* A mutation of Lower: the case of the filename is kept.
LowerKeepsCase(s) == s

\* str.lower()
Lower(s) == [i \in DOMAIN s |-> LowerChar(s[i])]

\* str.endswith(suffix)
EndsWith(s, suffix) ==
    /\ Len(s) >= Len(suffix)
    /\ SubSeq(s, Len(s) - Len(suffix) + 1, Len(s)) = suffix

DotPdf == <<".", "p", "d", "f">>
DotDocx == <<".", "d", "o", "c", "x">>
DotTxt == <<".", "t", "x", "t">>

-----------------------------------------------------------------------------
(* Paths and the filesystem *)

UPLOAD_FOLDER == <<"u","p","l","o","a","d","r","e","s","u","m","e">>

\* os.path.join(folder, name): an absolute name replaces the folder.
PathJoin(folder, name) ==
    IF name # <<>> /\ name[1] = "/" THEN name ELSE folder \o <<"/">> \o name

\* The components of a path string, split at "/".
RECURSIVE SplitFrom(_, _, _)
SplitFrom(s, i, cur) ==
    IF i > Len(s) THEN <<cur>>
    ELSE IF s[i] = "/" THEN <<cur>> \o SplitFrom(s, i + 1, <<>>)
    ELSE SplitFrom(s, i + 1, Append(cur, s[i]))

SplitPath(s) == SplitFrom(s, 1, <<>>)

\* The directories that exist: the working directory of the service, taken as
\* the root of the tree, and the upload folder that os.makedirs created in it.
Dirs == {<<>>, <<UPLOAD_FOLDER>>}

IsDirName(c) == c = <<>> \/ c = <<".">> \/ c = <<".", ".">>

Step(dir, c) ==
    IF c = <<>> \/ c = <<".">> THEN dir
    ELSE IF c = <<".", ".">> THEN (IF dir = <<>> THEN dir ELSE SubSeq(dir, 1, Len(dir) - 1))
    ELSE Append(dir, c)

\* The walk of the operating system along a path: every component but the
\* last must lead to an existing directory; the last names the file.
RECURSIVE Walk(_, _, _)
Walk(cs, i, dir) ==
    IF i = Len(cs)
    THEN IF IsDirName(cs[i]) \/ Step(dir, cs[i]) \in Dirs
         THEN [err |-> "IsADirectoryError", file |-> <<>>]
         ELSE [err |-> "", file |-> Step(dir, cs[i])]
    ELSE IF Step(dir, cs[i]) \in Dirs
         THEN Walk(cs, i + 1, Step(dir, cs[i]))
         ELSE [err |-> "FileNotFoundError", file |-> <<>>]

\* The file a path string names, or the error opening it for writing raises.
Resolve(path) == Walk(SplitPath(path), 1, <<>>)

\* A mutation of OsRemove: the file is left in place.
OsRemoveForgotten(fs, file) == fs

\* The files of the tree after os.remove(path) of an existing file.
OsRemove(fs, file) == [p \in (DOMAIN fs) \ {file} |-> fs[p]]

\* The files of the tree after file.save(path): created or overwritten.
FileSave(fs, file, data, who) ==
    [p \in (DOMAIN fs) \cup {file} |->
        IF p = file THEN [data |-> data, writer |-> who] ELSE fs[p]]

NoFiles == [p \in {} |-> [data |-> <<>>, writer |-> 0]]

-----------------------------------------------------------------------------
(* Uploads *)

FnTxt == <<"a", ".", "t", "x", "t">>
FnTxtUpper == <<"A", ".", "T", "X", "T">>
FnTxtDotSlash == <<".", "/", "a", ".", "t", "x", "t">>
FnPdf == <<"b", ".", "P", "d", "f">>
FnDocx == <<"c", ".", "d", "o", "c", "x">>
FnXyz == <<"n", ".", "x", "y", "z">>
FnNoDir == <<"d", "/", "e", ".", "t", "x", "t">>

\* The bytes of an upload, by what they are: UTF-8 text, a PDF document with
\* its pages' texts, or a DOCX document with its paragraphs' texts.
TextBytes == [fmt |-> "text", parts |-> << <<"h", "\n", "w">> >>]
EmptyBytes == [fmt |-> "text", parts |-> << <<>> >>]
PdfBytes == [fmt |-> "pdf", parts |-> << <<"P">>, <<"Q">> >>]
DocxBytes == [fmt |-> "docx", parts |-> << <<"A">>, <<"B">> >>]
NoBytes == [fmt |-> "none", parts |-> <<>>]

Upload(fn, c) == [filename |-> fn, content |-> c]

\* The file fields the clients send.
Uploads ==
    { Upload(<<>>, TextBytes),
      Upload(FnTxt, TextBytes),
      Upload(FnTxt, EmptyBytes),
      Upload(FnTxtUpper, TextBytes),
      Upload(FnTxtDotSlash, PdfBytes),
      Upload(FnPdf, PdfBytes),
      Upload(FnPdf, TextBytes),
      Upload(FnDocx, DocxBytes),
      Upload(FnXyz, TextBytes),
      Upload(FnNoDir, TextBytes) }

-----------------------------------------------------------------------------
(* State *)

VARIABLES
    fitz,            \* the module-level name fitz: the PyMuPDF module, or None
    files,           \* the regular files of the tree: resolved path -> bytes
    pc,              \* where each request's handler stands
    request,         \* each request's upload, as received
    extracted_text,  \* the handler's local of that name
    error_message,   \* the handler's local of that name
    response,        \* what the client of each request was answered
    trace            \* what each handler has done so far (history)

vars == <<fitz, files, pc, request, extracted_text, error_message, response, trace>>

FitzModule == "fitz"
FitzNone == "None"

NoRequest == [hasFile |-> FALSE, filename |-> <<>>, content |-> NoBytes]
Received(u) == [hasFile |-> TRUE, filename |-> u.filename, content |-> u.content]
NoResponse == [kind |-> "none", status |-> 0, key |-> "", val |-> <<>>]
NoTrace == [wrote |-> FALSE, branch |-> "none", invoked |-> {},
            readOf |-> 0, removedOf |-> 0, removedAt |-> "none"]

\* jsonify({key: val}), status
Json(status, key, val) == [kind |-> "json", status |-> status, key |-> key, val |-> val]

\* An exception that leaves parse_document: Flask answers with its own error
\* page (the debugger's, under debug=True), status 500, not with JSON.
Unhandled(exc) == [kind |-> "unhandled", status |-> 500, key |-> "exception", val |-> <<exc>>]

MsgNoFilePart == <<"No file part in the request">>
MsgNoSelectedFile == <<"No selected file">>
MsgUnsupported == <<"Unsupported file type. Please upload a PDF, DOCX, or TXT file.">>
MsgUnexpected == <<"An unexpected error occurred.">>
MsgNoFitz == <<"PyMuPDF library is not available for PDF parsing.">>
MsgGeneric == <<"Failed to extract text from the document. The file might be corrupted or in an unsupported format.">>

Init ==
    /\ fitz \in {FitzModule, FitzNone}
    /\ files = NoFiles
    /\ pc = [r \in Requests |-> "idle"]
    /\ request = [r \in Requests |-> NoRequest]
    /\ extracted_text = [r \in Requests |-> PyNone]
    /\ error_message = [r \in Requests |-> PyNone]
    /\ response = [r \in Requests |-> NoResponse]
    /\ trace = [r \in Requests |-> NoTrace]

-----------------------------------------------------------------------------
(* The extraction routines *)

\* Opening a path for reading: the bytes found there and who wrote them, or
\* the error raised.
OpenRead(fs, path) ==
    LET res == Resolve(path) IN
    IF res.err # "" THEN [err |-> res.err, data |-> NoBytes, writer |-> 0]
    ELSE IF res.file \notin DOMAIN fs
         THEN [err |-> "FileNotFoundError", data |-> NoBytes, writer |-> 0]
         ELSE [err |-> "", data |-> fs[res.file].data, writer |-> fs[res.file].writer]

\* text += page.get_text(), over the pages in order
RECURSIVE ConcatPages(_)
ConcatPages(pages) ==
    IF pages = <<>> THEN <<>> ELSE Head(pages) \o ConcatPages(Tail(pages))

\* text += paragraph.text + "\n", over the paragraphs in order
RECURSIVE ConcatParagraphs(_)
ConcatParagraphs(paragraphs) ==
    IF paragraphs = <<>> THEN <<>>
    ELSE Head(paragraphs) \o <<"\n">> \o ConcatParagraphs(Tail(paragraphs))

\* (text, error) of extract_text_from_pdf; fitz.open raises on a missing file
\* and on bytes that are no PDF document.
extract_text_from_pdf(fs, pdf_path) ==
    IF fitz = FitzNone THEN <<PyNone, PyStr(MsgNoFitz)>>
    ELSE LET f == OpenRead(fs, pdf_path) IN
         IF f.err # ""
         THEN <<PyNone, PyStr(<<"Error extracting text from PDF: ", f.err>>)>>
         ELSE IF f.data.fmt # "pdf"
         THEN <<PyNone, PyStr(<<"Error extracting text from PDF: ", "FileDataError">>)>>
         ELSE <<PyStr(ConcatPages(f.data.parts)), PyNone>>

\* (text, error) of extract_text_from_docx; docx.Document raises on a missing
\* file and on bytes that are no DOCX package.
extract_text_from_docx(fs, docx_path) ==
    LET f == OpenRead(fs, docx_path) IN
    IF f.err # ""
    THEN <<PyNone, PyStr(<<"Error extracting text from DOCX: ", f.err>>)>>
    ELSE IF f.data.fmt # "docx"
    THEN <<PyNone, PyStr(<<"Error extracting text from DOCX: ", "PackageNotFoundError">>)>>
    ELSE <<PyStr(ConcatParagraphs(f.data.parts)), PyNone>>

\* (extracted_text, error_message) after the .txt branch: the file's text, or
\* the error of open() or of the UTF-8 decoding (the bytes of a PDF or DOCX
\* document are taken not to be valid UTF-8).
read_txt(fs, filepath) ==
    LET f == OpenRead(fs, filepath) IN
    IF f.err # ""
    THEN <<PyNone, PyStr(<<"Error reading TXT file: ", f.err>>)>>
    ELSE IF f.data.fmt # "text"
    THEN <<PyNone, PyStr(<<"Error reading TXT file: ", "UnicodeDecodeError">>)>>
    ELSE <<PyStr(f.data.parts[1]), PyNone>>

-----------------------------------------------------------------------------
(* parse_document *)

\* A mutation of FilenameEmpty: the check of line 67 is missing.
FilenameNeverEmpty(filename) == FALSE

\* file.filename == ''
FilenameEmpty(filename) == filename = <<>>

\* bool(file): a FileStorage is truthy when its filename is not empty.
FileTruthy(filename) == filename # <<>>

IsPdf(filename) == EndsWith(Lower(filename), DotPdf)
IsDocx(filename) == EndsWith(Lower(filename), DotDocx)
IsTxt(filename) == EndsWith(Lower(filename), DotTxt)

Filepath(filename) == PathJoin(UPLOAD_FOLDER, filename)

\* The answer of lines 94-97.
Respond(text, error) ==
    IF Truthy(text) THEN Json(200, "parsedText", text[2])
    ELSE Json(500, "error", IF Truthy(error) THEN error[2] ELSE MsgGeneric)

Finish(r, resp) ==
    /\ pc' = [pc EXCEPT ![r] = "done"]
    /\ response' = [response EXCEPT ![r] = resp]

\* Lines 62-63: the request has no field named file.
NoFilePart(r) ==
    /\ pc[r] = "idle"
    /\ request' = [request EXCEPT ![r] = NoRequest]
    /\ Finish(r, Json(400, "error", MsgNoFilePart))
    /\ UNCHANGED <<fitz, files, extracted_text, error_message, trace>>

\* Lines 65-68: the file field carries an empty filename.
NoSelectedFile(r) ==
    /\ pc[r] = "idle"
    /\ \E u \in Uploads :
        /\ FilenameEmpty(u.filename)
        /\ request' = [request EXCEPT ![r] = Received(u)]
    /\ Finish(r, Json(400, "error", MsgNoSelectedFile))
    /\ UNCHANGED <<fitz, files, extracted_text, error_message, trace>>

\* Lines 65-76 (and 99): the upload is written to its path under the upload
\* folder.  file.save raises when the path cannot be opened for writing, and
\* nothing in the handler catches it.
SaveUpload(r) ==
    /\ pc[r] = "idle"
    /\ \E u \in Uploads :
        /\ ~FilenameEmpty(u.filename)
        /\ request' = [request EXCEPT ![r] = Received(u)]
        /\ IF ~FileTruthy(u.filename)
           THEN /\ Finish(r, Json(500, "error", MsgUnexpected))
                /\ UNCHANGED <<files, trace>>
           ELSE LET res == Resolve(Filepath(u.filename)) IN
                IF res.err # ""
                THEN /\ Finish(r, Unhandled(res.err))
                     /\ UNCHANGED <<files, trace>>
                ELSE /\ files' = FileSave(files, res.file, u.content, r)
                     /\ trace' = [trace EXCEPT ![r].wrote = TRUE]
                     /\ pc' = [pc EXCEPT ![r] = "saved"]
                     /\ UNCHANGED response
    /\ UNCHANGED <<fitz, extracted_text, error_message>>

\* What an extraction branch leaves in the handler's locals.
Extracted(r, branch, result, reader) ==
    /\ extracted_text' = [extracted_text EXCEPT ![r] = result[1]]
    /\ error_message' = [error_message EXCEPT ![r] = result[2]]
    /\ trace' = [trace EXCEPT ![r].branch = branch,
                              ![r].invoked = @ \cup {branch},
                              ![r].readOf = reader]
    /\ pc' = [pc EXCEPT ![r] = "extracted"]
    /\ UNCHANGED <<fitz, files, request, response>>

\* Lines 78-79.
ExtractPdf(r) ==
    /\ pc[r] = "saved"
    /\ IsPdf(request[r].filename)
    /\ Extracted(r, "pdf", extract_text_from_pdf(files, Filepath(request[r].filename)),
                 IF fitz = FitzNone THEN 0
                 ELSE OpenRead(files, Filepath(request[r].filename)).writer)

\* Lines 80-81.
ExtractDocx(r) ==
    /\ pc[r] = "saved"
    /\ ~IsPdf(request[r].filename)
    /\ IsDocx(request[r].filename)
    /\ Extracted(r, "docx", extract_text_from_docx(files, Filepath(request[r].filename)),
                 OpenRead(files, Filepath(request[r].filename)).writer)

\* Lines 82-87.
ReadTxt(r) ==
    /\ pc[r] = "saved"
    /\ ~IsPdf(request[r].filename)
    /\ ~IsDocx(request[r].filename)
    /\ IsTxt(request[r].filename)
    /\ Extracted(r, "txt", read_txt(files, Filepath(request[r].filename)),
                 OpenRead(files, Filepath(request[r].filename)).writer)

\* os.remove(filepath) at the named line, then the answer `resp`; os.remove
\* raises when no file is at the path, and nothing in the handler catches it.
Remove(r, line, branch, resp) ==
    LET f == OpenRead(files, Filepath(request[r].filename)) IN
    IF f.err # ""
    THEN /\ Finish(r, Unhandled(f.err))
         /\ trace' = [trace EXCEPT ![r].branch = branch]
         /\ UNCHANGED files
    ELSE /\ files' = OsRemove(files, Resolve(Filepath(request[r].filename)).file)
         /\ trace' = [trace EXCEPT ![r].branch = branch,
                                   ![r].removedOf = f.writer, ![r].removedAt = line]
         /\ Finish(r, resp)

\* Lines 88-90.
RejectUnsupported(r) ==
    /\ pc[r] = "saved"
    /\ ~IsPdf(request[r].filename)
    /\ ~IsDocx(request[r].filename)
    /\ ~IsTxt(request[r].filename)
    /\ Remove(r, "89", "unsupported", Json(400, "error", MsgUnsupported))
    /\ UNCHANGED <<fitz, request, extracted_text, error_message>>

\* Lines 92-97.
Cleanup(r) ==
    /\ pc[r] = "extracted"
    /\ Remove(r, "92", trace[r].branch, Respond(extracted_text[r], error_message[r]))
    /\ UNCHANGED <<fitz, request, extracted_text, error_message>>

Next ==
    \E r \in Requests :
        \/ NoFilePart(r)
        \/ NoSelectedFile(r)
        \/ SaveUpload(r)
        \/ ExtractPdf(r)
        \/ ExtractDocx(r)
        \/ ReadTxt(r)
        \/ RejectUnsupported(r)
        \/ Cleanup(r)

Spec == Init /\ [][Next]_vars

\* parse_document from its first line to its last with no other request
\* running: the answer to one upload when the upload folder holds no file.
parse_document(req) ==
    IF ~req.hasFile THEN Json(400, "error", MsgNoFilePart)
    ELSE IF FilenameEmpty(req.filename) THEN Json(400, "error", MsgNoSelectedFile)
    ELSE IF ~FileTruthy(req.filename) THEN Json(500, "error", MsgUnexpected)
    ELSE LET filepath == Filepath(req.filename)
             res == Resolve(filepath)
             fs == FileSave(NoFiles, res.file, req.content, 0)
             pdf == extract_text_from_pdf(fs, filepath)
             docx == extract_text_from_docx(fs, filepath)
             txt == read_txt(fs, filepath)
         IN  IF res.err # "" THEN Unhandled(res.err)
             ELSE IF IsPdf(req.filename) THEN Respond(pdf[1], pdf[2])
             ELSE IF IsDocx(req.filename) THEN Respond(docx[1], docx[2])
             ELSE IF IsTxt(req.filename) THEN Respond(txt[1], txt[2])
             ELSE Json(400, "error", MsgUnsupported)

-----------------------------------------------------------------------------
(* Vocabulary of the properties *)

Done(r) == pc[r] = "done"

\* No handler is between its first and its last line.
NoneInFlight == \A r \in Requests : pc[r] \in {"idle", "done"}

\* The request carried a file field with a filename.
Named(r) == request[r].hasFile /\ request[r].filename # <<>>

\* The request has gone through the if/elif/else chain of lines 78-90.
Dispatched(r) == pc[r] = "extracted" \/ (Done(r) /\ trace[r].wrote)

\* The filename ends in the suffix when letter case is ignored, character by
\* character.
HasSuffixAnyCase(fn, suffix) ==
    /\ Len(fn) >= Len(suffix)
    /\ \A i \in 1..Len(suffix) : LowerChar(fn[Len(fn) - Len(suffix) + i]) = suffix[i]

\* The path the extension of a filename stands for.
SuffixKind(fn) ==
    IF HasSuffixAnyCase(fn, DotPdf) THEN "pdf"
    ELSE IF HasSuffixAnyCase(fn, DotDocx) THEN "docx"
    ELSE IF HasSuffixAnyCase(fn, DotTxt) THEN "txt"
    ELSE "unsupported"

SameButCase(f, g) ==
    /\ Len(f) = Len(g)
    /\ \A i \in 1..Len(f) : LowerChar(f[i]) = LowerChar(g[i])

\* The text the concatenation rule of a type gives for a document.
ConcatenationRule(kind, content) ==
    IF kind = "pdf" THEN ConcatPages(content.parts)
    ELSE IF kind = "docx" THEN ConcatParagraphs(content.parts)
    ELSE content.parts[1]

\* The bytes are a valid document of the type the extension names.
ValidFor(kind, content) ==
    \/ kind = "pdf" /\ content.fmt = "pdf"
    \/ kind = "docx" /\ content.fmt = "docx"
    \/ kind = "txt" /\ content.fmt = "text"

-----------------------------------------------------------------------------
(* Properties *)

\* C1: whenever no request is in flight, whatever the requests before were
\* and however they interleaved, no file any of them wrote is left on disk.
C1_CleanupInvariant == NoneInFlight => DOMAIN files = {}

\* C1 witness: both requests wrote a temp file and are finished, one answered
\* 200 and one answered 400, and nothing is in flight.
C1_Witness ==
    /\ NoneInFlight
    /\ \A r \in Requests : Done(r) /\ trace[r].wrote
    /\ \E r \in Requests : response[r].status = 200
    /\ \E r \in Requests : response[r].status = 400

\* C2: every finished request was answered with JSON of status 200, 400 or
\* 500; no exception left the handler.
C2_AllErrorsCaught ==
    \A r \in Requests :
        Done(r) => response[r].kind = "json" /\ response[r].status \in {200, 400, 500}

\* C3: a finished request with a supported extension and a valid document of
\* that type was answered 200 with the non-empty text of the type's
\* concatenation rule.
C3_ValidUploadParsed ==
    \A r \in Requests :
        (/\ Done(r)
         /\ Named(r)
         /\ ValidFor(SuffixKind(request[r].filename), request[r].content))
        => /\ ConcatenationRule(SuffixKind(request[r].filename), request[r].content) # <<>>
           /\ response[r] = Json(200, "parsedText",
                  ConcatenationRule(SuffixKind(request[r].filename), request[r].content))

\* C4: a finished request that took an extraction branch was answered 200
\* with the text exactly when the extraction left non-empty text, and
\* otherwise 500 with the captured error, or the generic message if none.
C4_ResponseFollowsExtraction ==
    \A r \in Requests :
        (Done(r) /\ trace[r].branch \in {"pdf", "docx", "txt"})
        => /\ (response[r].status = 200) <=> Truthy(extracted_text[r])
           /\ Truthy(extracted_text[r])
                => response[r] = Json(200, "parsedText", extracted_text[r][2])
           /\ (~Truthy(extracted_text[r]) /\ error_message[r] # PyNone)
                => response[r] = Json(500, "error", error_message[r][2])
           /\ (~Truthy(extracted_text[r]) /\ error_message[r] = PyNone)
                => response[r] = Json(500, "error", MsgGeneric)

\* C5: a finished request whose filename has none of the three extensions
\* was answered 400 "Unsupported file type", ran no extraction routine, and
\* deleted its temp file at line 89, not at line 92.
C5_UnsupportedRejected ==
    \A r \in Requests :
        (/\ Done(r)
         /\ Named(r)
         /\ SuffixKind(request[r].filename) = "unsupported")
        => /\ response[r] = Json(400, "error", MsgUnsupported)
           /\ trace[r].invoked = {}
           /\ trace[r].removedAt = "89"

\* C6: a request without a file field is answered 400 "No file part in the
\* request", one with an empty filename 400 "No selected file", and the step
\* that answers writes no file, changes no file and runs no extraction.
C6_RejectedBeforeAnyWrite ==
    [][\A r \in Requests :
        (/\ pc[r] = "idle"
         /\ pc'[r] # "idle"
         /\ (~request'[r].hasFile \/ request'[r].filename = <<>>))
        => /\ pc'[r] = "done"
           /\ response'[r] = Json(400, "error",
                  IF request'[r].hasFile THEN MsgNoSelectedFile ELSE MsgNoFilePart)
           /\ files' = files
           /\ ~trace'[r].wrote
           /\ trace'[r].invoked = {}]_vars

\* C6 witness: one request was rejected for its missing file field and one
\* for its empty filename.
C6_Witness ==
    /\ \E r \in Requests :
          Done(r) /\ ~request[r].hasFile /\ response[r].val = MsgNoFilePart
    /\ \E r \in Requests :
          /\ Done(r) /\ request[r].hasFile /\ request[r].filename = <<>>
          /\ response[r].val = MsgNoSelectedFile

\* C7: without PyMuPDF, a finished request for a .pdf filename (in any
\* letter case) was answered 500 with the library-unavailable message, as
\* JSON, and deleted its temp file.
C7_PdfFailsGracefully ==
    fitz = FitzNone =>
        \A r \in Requests :
            (Done(r) /\ Named(r) /\ SuffixKind(request[r].filename) = "pdf")
            => /\ response[r] = Json(500, "error", MsgNoFitz)
               /\ trace[r].removedAt = "92"

\* The requests that carry a named file carry pairwise distinct filenames.
DistinctFilenames ==
    \A r1, r2 \in Requests :
        (r1 # r2 /\ Named(r1) /\ Named(r2)) => request[r1].filename # request[r2].filename

\* The request read and deleted no file another request wrote, and was
\* answered as it would have been alone.
Isolated(r) ==
    /\ trace[r].readOf \in {0, r}
    /\ trace[r].removedOf \in {0, r}
    /\ Done(r) => response[r] = parse_document(request[r])

\* C8: while the uploads' filenames are pairwise distinct, every request
\* reads and deletes only its own file and is answered as if run alone.
C8_DistinctFilenamesIsolated == DistinctFilenames => \A r \in Requests : Isolated(r)

\* C9: under every interleaving, identical filenames included, every
\* finished request was answered as if run alone, read no other request's
\* bytes and found its temp file at the extract and the delete step.
C9_RequestsIsolated ==
    \A r \in Requests :
        /\ Isolated(r)
        /\ Dispatched(r) =>
              /\ error_message[r] # PyStr(<<"Error reading TXT file: ", "FileNotFoundError">>)
              /\ error_message[r] # PyStr(<<"Error extracting text from PDF: ", "FileNotFoundError">>)
              /\ error_message[r] # PyStr(<<"Error extracting text from DOCX: ", "FileNotFoundError">>)
        /\ Done(r) => response[r] # Unhandled("FileNotFoundError") \/ ~trace[r].wrote

=============================================================================
